---- MODULE Spec2Model ----
(***************************************************************************)
(* eq2ynab: conversion of an EQ bank CSV export into a YNAB CSV import     *)
(* (src/src/main.rs).                                                      *)
(*                                                                         *)
(* Text is modelled as a sequence of characters, each character a          *)
(* one-element string ("a", ",", "\n").  Euro stands for the single        *)
(* character U+20AC, which UTF-8 encodes in three bytes.                   *)
(***************************************************************************)
EXTENDS Integers, Sequences, FiniteSets, TLC

VARIABLES input, pc, lines, idx, data, err, outFile, stdout

vars == <<input, pc, lines, idx, data, err, outFile, stdout>>

-----------------------------------------------------------------------------
(* Characters and the str primitives of the standard library the code uses *)

Euro == "EUR"

DigitChars == <<"0", "1", "2", "3", "4", "5", "6", "7", "8", "9">>

IsDigit(c) == \E i \in 1..Len(DigitChars) : DigitChars[i] = c

DigitVal(c) == (CHOOSE i \in 1..Len(DigitChars) : DigitChars[i] = c) - 1

\* char::is_whitespace on the characters a line can hold
IsWhitespace(c) == c \in {" ", "\t", "\r", "\n"}

\* u8::is_ascii_whitespace
IsAsciiWhitespace(c) == c \in {" ", "\t", "\r", "\n"}

\* char::len_utf8
ByteLen(c) == IF c = Euro THEN 3 ELSE 1

RECURSIVE StrByteLen(_)
StrByteLen(s) == IF s = <<>> THEN 0 ELSE ByteLen(Head(s)) + StrByteLen(Tail(s))

\* the pattern pat matches in s at character position i
MatchesAt(s, pat, i) ==
    /\ i + Len(pat) - 1 <= Len(s)
    /\ \A k \in 1..Len(pat) : s[i + k - 1] = pat[k]

\* str::contains(&str)
Contains(s, pat) == \E i \in 1..(Len(s) - Len(pat) + 1) : MatchesAt(s, pat, i)

\* the least element of a set of numbers
MinOf(S) == CHOOSE m \in S : \A j \in S : m <= j

\* str::split(pat).collect(): the matches are found left to right and do
\* not overlap; start is where the current segment begins
RECURSIVE SplitFrom(_, _, _)
SplitFrom(s, pat, start) ==
    LET hits == {i \in start..Len(s) : MatchesAt(s, pat, i)}
    IN  IF hits = {} THEN <<SubSeq(s, start, Len(s))>>
        ELSE <<SubSeq(s, start, MinOf(hits) - 1)>>
                 \o SplitFrom(s, pat, MinOf(hits) + Len(pat))

Split(s, pat) == SplitFrom(s, pat, 1)

\* str::trim
RECURSIVE TrimStart(_)
TrimStart(s) ==
    IF s # <<>> /\ IsWhitespace(Head(s)) THEN TrimStart(Tail(s)) ELSE s

RECURSIVE TrimEnd(_)
TrimEnd(s) ==
    IF s # <<>> /\ IsWhitespace(s[Len(s)])
    THEN TrimEnd(SubSeq(s, 1, Len(s) - 1))
    ELSE s

\* variant of Trim: str::trim_start
TrimStartOnly(s) == TrimStart(s)

Trim(s) == TrimEnd(TrimStart(s))

\* str::split_ascii_whitespace().collect(): the non-empty runs of
\* characters that are not ASCII whitespace
RECURSIVE WordsFrom(_, _)
WordsFrom(s, start) ==
    LET begins == {i \in start..Len(s) : ~IsAsciiWhitespace(s[i])}
    IN  IF begins = {} THEN <<>>
        ELSE LET b    == MinOf(begins)
                 ends == {i \in b..Len(s) : IsAsciiWhitespace(s[i])}
                 e    == IF ends = {} THEN Len(s) + 1 ELSE MinOf(ends)
             IN  <<SubSeq(s, b, e - 1)>> \o WordsFrom(s, e)

SplitAsciiWhitespace(s) == WordsFrom(s, 1)

\* str::lines().collect(): a line ends at "\n"; the "\n" and a "\r" right
\* before it are not part of the line; text after the last "\n" is a line
\* when it is not empty
StripCR(s) ==
    IF s # <<>> /\ s[Len(s)] = "\r" THEN SubSeq(s, 1, Len(s) - 1) ELSE s

RECURSIVE LinesFrom(_, _)
LinesFrom(s, start) ==
    LET ends == {i \in start..Len(s) : s[i] = "\n"}
    IN  IF start > Len(s) THEN <<>>
        ELSE IF ends = {} THEN <<SubSeq(s, start, Len(s))>>
             ELSE <<StripCR(SubSeq(s, start, MinOf(ends) - 1))>>
                      \o LinesFrom(s, MinOf(ends) + 1)

Lines(s) == LinesFrom(s, 1)

\* variant of Skip1: the first line is kept
SkipNone(ls) == ls

\* Iterator::skip(1)
Skip1(ls) == IF ls = <<>> THEN <<>> ELSE Tail(ls)

\* str::is_char_boundary(n), n a byte offset
IsCharBoundary(s, n) ==
    \E k \in 0..Len(s) : StrByteLen(SubSeq(s, 1, k)) = n

\* str::split_at(n).1 where n is a char boundary: the text from byte n on
SplitAtTail(s, n) ==
    LET k == CHOOSE j \in 0..Len(s) : StrByteLen(SubSeq(s, 1, j)) = n
    IN  SubSeq(s, k + 1, Len(s))

-----------------------------------------------------------------------------
(* f32.  A value is NaN, an infinity or a finite decimal m / 10^e with a    *)
(* sign bit (so that -0.0 differs from 0.0); e is as small as possible.     *)
(* Decimals of at most six significant digits survive the round trip       *)
(* through f32 and its shortest Display form unchanged, and the amounts     *)
(* the model feeds in stay within that.                                     *)

RECURSIVE Pow10(_)
Pow10(e) == IF e = 0 THEN 1 ELSE 10 * Pow10(e - 1)

RECURSIVE Normalise(_, _)
Normalise(m, e) ==
    IF e > 0 /\ m % 10 = 0 THEN Normalise(m \div 10, e - 1) ELSE <<m, e>>

Fin(neg, m, e) ==
    LET n == Normalise(m, e)
    IN  [kind |-> "fin", neg |-> neg, m |-> n[1], e |-> n[2]]

Inf(neg) == [kind |-> "inf", neg |-> neg, m |-> 0, e |-> 0]

NaN == [kind |-> "nan", neg |-> FALSE, m |-> 0, e |-> 0]

PlusOne == Fin(FALSE, 1, 0)

MinusOne == Fin(TRUE, 1, 0)

\* variant of MulSign: the sign factor is lost
MulSignDropped(a, b) == a

\* a * b for b one of 1.0, -1.0
MulSign(a, b) ==
    IF a.kind = "nan" THEN NaN ELSE [a EXCEPT !.neg = (a.neg # b.neg)]

\* a > 0.0
GtZero(a) ==
    /\ ~a.neg
    /\ \/ a.kind = "inf"
       \/ a.kind = "fin" /\ a.m > 0

\* a < 0.0
LtZero(a) ==
    /\ a.neg
    /\ \/ a.kind = "inf"
       \/ a.kind = "fin" /\ a.m > 0

\* variant of Abs: the sign is kept
AbsForgotten(a) == a

\* f32::abs
Abs(a) == [a EXCEPT !.neg = FALSE]

RECURSIVE DigitsToNat(_)
DigitsToNat(ds) ==
    IF ds = <<>> THEN 0
    ELSE 10 * DigitsToNat(SubSeq(ds, 1, Len(ds) - 1)) + DigitVal(ds[Len(ds)])

AllDigits(s) == \A i \in 1..Len(s) : IsDigit(s[i])

ToAsciiLower(c) ==
    CASE c = "I" -> "i" [] c = "N" -> "n" [] c = "F" -> "f" [] c = "A" -> "a"
      [] c = "T" -> "t" [] c = "Y" -> "y" [] OTHER -> c

LowerStr(s) == [i \in 1..Len(s) |-> ToAsciiLower(s[i])]

ParseErr == [ok |-> FALSE, val |-> NaN]

ParseOk(v) == [ok |-> TRUE, val |-> v]

\* digits [ "." digits ], with at least one digit on one side of the point
ParseDecimal(s, neg) ==
    LET dots == {i \in 1..Len(s) : s[i] = "."}
        dot  == IF dots = {} THEN Len(s) + 1 ELSE CHOOSE i \in dots : TRUE
        ip   == SubSeq(s, 1, dot - 1)
        fp   == SubSeq(s, dot + 1, Len(s))
    IN  IF /\ Cardinality(dots) <= 1
           /\ AllDigits(ip)
           /\ AllDigits(fp)
           /\ Len(ip) + Len(fp) > 0
        THEN ParseOk(Fin(neg, DigitsToNat(ip \o fp), Len(fp)))
        ELSE ParseErr

\* <f32 as FromStr>::from_str: an optional sign, then a decimal number or
\* (in any letter case) inf, infinity or nan.  The exponent form (1e5) is
\* not modelled: no amount the model feeds in holds an "e" after a digit.
ParseF32(s) ==
    LET signed == s # <<>> /\ s[1] \in {"-", "+"}
        neg    == signed /\ s[1] = "-"
        body   == IF signed THEN Tail(s) ELSE s
        low    == LowerStr(body)
    IN  IF low \in {<<"i", "n", "f">>,
                    <<"i", "n", "f", "i", "n", "i", "t", "y">>}
        THEN ParseOk(Inf(neg))
        ELSE IF low = <<"n", "a", "n">>
             THEN ParseOk(NaN)
             ELSE ParseDecimal(body, neg)

RECURSIVE NatToStr(_)
NatToStr(n) ==
    IF n < 10 THEN <<DigitChars[n + 1]>>
    ELSE NatToStr(n \div 10) \o <<DigitChars[(n % 10) + 1]>>

\* n in decimal, left-padded with "0" to w characters
RECURSIVE PadZero(_, _)
PadZero(s, w) == IF Len(s) >= w THEN s ELSE PadZero(<<"0">> \o s, w)

\* <f32 as Display>::fmt: the shortest decimal that reads back as the value
FmtF32(a) ==
    LET sign == IF a.neg THEN <<"-">> ELSE <<>>
    IN  CASE a.kind = "nan" -> <<"N", "a", "N">>
          [] a.kind = "inf" -> sign \o <<"i", "n", "f">>
          [] OTHER ->
               sign \o NatToStr(a.m \div Pow10(a.e))
                    \o (IF a.e = 0 THEN <<>>
                        ELSE <<".">> \o PadZero(NatToStr(a.m % Pow10(a.e)), a.e))

-----------------------------------------------------------------------------
(* The program's values                                                     *)

\* Option<T>
None == [some |-> FALSE, val |-> <<>>]

Some(v) == [some |-> TRUE, val |-> v]

\* enum Err; arg is the String InvalidNumLineElements carries
MkErr(kind, arg) == [kind |-> kind, arg |-> arg]

NoErr == MkErr("none", <<>>)

\* impl fmt::Display for Err
ErrFmt(e) ==
    CASE e.kind = "InvalidNumLineElements" ->
             <<"i", "n", "v", "a", "l", "i", "d", " ", "n", "u", "m", "b", "e",
               "r", " ", "o", "f", " ", "e", "l", "e", "m", "e", "n", "t", "s",
               ":", " ">> \o e.arg
      [] e.kind = "PrefixAmount" ->
             <<"p", "a", "r", "s", "i", "n", "g", " ", "p", "r", "e", "f", "i",
               "x", " ", "a", "m", "o", "u", "n", "t">>
      [] e.kind = "ParseAmount" ->
             <<"p", "a", "r", "s", "i", "n", "g", " ", "a", "m", "o", "u", "n",
               "t">>
      [] e.kind = "ParsePayee" ->
             <<"p", "a", "r", "s", "i", "n", "g", " ", "p", "a", "y", "e", "e">>
      [] e.kind = "PrefixPayee" ->
             <<"r", "e", "m", "o", "v", "i", "n", "g", " ", "p", "r", "e", "f",
               "i", "x", " ", "p", "a", "y", "e", "e">>
      [] e.kind = "ConvertDate" ->
             <<"c", "o", "n", "v", "e", "r", "t", "i", "n", "g", " ", "d", "a",
               "t", "e">>
      [] OTHER ->
             <<"w", "r", "i", "t", "i", "n", "g", ":", " ">> \o e.arg

\* struct Data
Data(date, payee, amount) == [date |-> date, payee |-> payee, amount |-> amount]

NoData == Data(<<>>, <<>>, NaN)

-----------------------------------------------------------------------------
(* The conversion functions                                                 *)

KEYWORDS ==
    << <<" ", "t", "o", " ">>,
       <<" ", "b", "y", " ">>,
       <<" ", "f", "r", "o", "m", " ">> >>

\* the for loop of remove_payee_prefix, at KEYWORDS[k]
RECURSIVE PayeeScan(_, _)
PayeeScan(payee, k) ==
    IF k > Len(KEYWORDS) THEN Some(payee)
    ELSE IF Contains(payee, KEYWORDS[k])
         THEN LET split == Split(payee, KEYWORDS[k])
              IN  IF split = <<>> THEN None
                  ELSE Some(Trim(split[Len(split)]))
         ELSE PayeeScan(payee, k + 1)

remove_payee_prefix(payee) == PayeeScan(payee, 1)

MONTHS ==
    << <<"J", "A", "N">>, <<"F", "E", "B">>, <<"M", "A", "R">>,
       <<"A", "P", "R">>, <<"M", "A", "Y">>, <<"J", "U", "N">>,
       <<"J", "U", "L">>, <<"A", "U", "G">>, <<"S", "E", "P">>,
       <<"O", "C", "T">>, <<"N", "O", "V">>, <<"D", "E", "C">> >>

\* variant of FmtMonth: format!("{}", idx + 1)
FmtMonthUnpadded(k) == NatToStr(k)

\* variant of FmtMonth: format!("{:0>2}", idx)
FmtMonthZeroBased(k) == PadZero(NatToStr(k - 1), 2)

\* format!("{:0>2}", idx + 1); k is idx + 1
FmtMonth(k) == PadZero(NatToStr(k), 2)

\* the for loop of convert_month, at MONTHS[k]
RECURSIVE MonthScan(_, _)
MonthScan(input_month, k) ==
    IF k > Len(MONTHS) THEN None
    ELSE IF Contains(input_month, MONTHS[k])
         THEN Some(FmtMonth(k))
         ELSE MonthScan(input_month, k + 1)

convert_month(input_month) == MonthScan(input_month, 1)

convert_date(date) ==
    LET split == SplitAsciiWhitespace(date)
    IN  IF Len(split) # 3 THEN None
        ELSE LET day   == split[1]
                 year  == split[Len(split)]
                 month == convert_month(split[2])
             IN  IF ~month.some THEN None
                 ELSE Some(day \o <<"/">> \o month.val \o <<"/">> \o year)

\* the result of the closure main maps over the lines: Ok(Data), Err(Err),
\* or a panic raised inside it
Ok(d) == [tag |-> "Ok", data |-> d, err |-> NoErr]

Fail(e) == [tag |-> "Err", data |-> NoData, err |-> e]

Panic == [tag |-> "Panic", data |-> NoData, err |-> NoErr]

\* the amount field from its first character on: sign, payload, value
ConvertAmount(amount) ==
    LET first     == amount[1]
        is_neg    == first = "-"
        split_idx == IF is_neg THEN 2 ELSE 1
    IN  IF ~IsCharBoundary(amount, split_idx) THEN Panic
        ELSE LET parsed == ParseF32(SplitAtTail(amount, split_idx))
             IN  IF ~parsed.ok THEN Fail(MkErr("ParseAmount", <<>>))
                 ELSE Ok(Data(<<>>, <<>>,
                              MulSign(parsed.val,
                                      IF is_neg THEN MinusOne ELSE PlusOne)))

\* variant of FieldCountOk: accepts longer lines
FieldCountAtLeast(elements) == Len(elements) >= 4

\* elements.len() == 4
FieldCountOk(elements) == Len(elements) = 4

\* the closure |l| { ... } of main
ConvertLine(l) ==
    LET elements == Split(l, <<",">>)
    IN  IF FieldCountOk(elements)
        THEN LET amount == elements[3]
             IN  IF amount = <<>> THEN Fail(MkErr("PrefixAmount", <<>>))
                 ELSE LET a == ConvertAmount(amount)
                      IN  IF a.tag # "Ok" THEN a
                          ELSE LET payee == remove_payee_prefix(elements[2])
                                   date  == convert_date(elements[1])
                               IN  IF ~payee.some
                                   THEN Fail(MkErr("PrefixPayee", <<>>))
                                   ELSE IF ~date.some
                                        THEN Fail(MkErr("ConvertDate", <<>>))
                                        ELSE Ok(Data(date.val, payee.val,
                                                     a.data.amount))
        ELSE Fail(MkErr("InvalidNumLineElements", l))

HeaderLine ==
    <<"D", "a", "t", "e", ",", "P", "a", "y", "e", "e", ",", "C", "a", "t",
      "e", "r", "g", "o", "r", "y", ",", "M", "e", "m", "o", ",", "O", "u",
      "t", "f", "l", "o", "w", ",", "I", "n", "f", "l", "o", "w", "\n">>

\* the commas write puts between the payee and the amount
Commas(d) ==
    IF GtZero(d.amount) THEN <<",", ",", ",", ",">> ELSE <<",", ",", ",">>

\* one pass of the for loop of write: format!("{},{}{commas}{}\n", ...)
FormatRow(d) ==
    d.date \o <<",">> \o d.payee \o Commas(d) \o FmtF32(Abs(d.amount))
           \o <<"\n">>

RECURSIVE Rows(_)
Rows(ds) == IF ds = <<>> THEN <<>> ELSE FormatRow(Head(ds)) \o Rows(Tail(ds))

\* the String write builds before it opens the file
WriteOutput(ds) == HeaderLine \o Rows(ds)

-----------------------------------------------------------------------------
(* The input files the model runs the program on                            *)

MaxLines == 2

MaxDateParts == 4

MaxPayeeTokens == 4

MaxAmountLen == 4

SeqsUpTo(S, n) == UNION {[1..k -> S] : k \in 0..n}

\* the parts joined by sep
RECURSIVE Join(_, _)
Join(ps, sep) ==
    IF ps = <<>> THEN <<>>
    ELSE IF Len(ps) = 1 THEN ps[1]
         ELSE ps[1] \o sep \o Join(Tail(ps), sep)

RECURSIVE Flatten(_)
Flatten(ss) == IF ss = <<>> THEN <<>> ELSE Head(ss) \o Flatten(Tail(ss))

InputHeader ==
    <<"D", "a", "t", "e", ",", "D", "e", "s", "c", "r", "i", "p", "t", "i",
      "o", "n", ",", "A", "m", "o", "u", "n", "t", ",", "B", "a", "l", "a",
      "n", "c", "e">>

ExampleLine1 ==
    <<"3", "1", " ", "J", "A", "N", " ", "2", "0", "2", "4", ",", "P", "a",
      "y", "m", "e", "n", "t", " ", "t", "o", " ", "C", "A", "N", "A", "D",
      "A", " ", "L", "I", "F", "E", ",", "-", "$", "2", "7", "1", ".", "8",
      "0", ",", "$", "5", "0", "0", ".", "0", "0">>

ExampleLine2 ==
    <<"2", "9", " ", "J", "A", "N", " ", "2", "0", "2", "4", ",", "D", "e",
      "p", "o", "s", "i", "t", " ", "f", "r", "o", "m", " ", "B", "K", " ",
      "O", "F", " ", "M", "O", "N", "T", "R", "E", "A", "L", ",", "$", "6",
      "1", "0", ",", "$", "1", "1", "1", "0", ".", "0", "0">>

BaseDate == <<"2", "9", " ", "F", "E", "B", " ", "2", "0", "2", "4">>

BadDate == <<"0", "1", " ", "X", "Y", "Z", " ", "2", "0", "2", "4">>

BasePayee == <<"C", "A", "N", "A", "D", "A", " ", "L", "I", "F", "E">>

BaseAmount == <<"$", "6", "1", "0">>

Balance == <<"$", "9">>

LineOf(date, payee, amount) == Join(<<date, payee, amount, Balance>>, <<",">>)

\* date fields: every run of up to MaxDateParts parts; every day, month and
\* year with each table entry or a near miss as the month; other spacings
DateShapeParts ==
    {<<"1">>, <<"J", "A", "N">>, <<"2", "0", "2", "4">>, <<"X", "Y", "Z">>}

MonthParts ==
    {MONTHS[k] : k \in 1..Len(MONTHS)}
        \cup {<<"X", "Y", "Z">>, <<"j", "a", "n">>, <<"J", "a", "n">>,
              <<"D", "E", "C", "J", "A", "N">>, <<"M", "A", "R", "C", "H">>,
              <<"0", "2">>}

DayParts == {<<"1">>, <<"2", "9">>}

YearParts == {<<"2", "0", "2", "4">>, <<"1", "9", "9", "9">>}

DateExtras ==
    {BaseDate, BadDate, <<" ">> \o BaseDate \o <<" ">>,
     <<"2", "9", "\t", "F", "E", "B", " ", " ", "2", "0", "2", "4">>,
     <<"2", "9", "F", "E", "B", "2", "0", "2", "4">>,
     <<"2", "9", "-", "F", "E", "B", "-", "2", "0", "2", "4">>,
     <<"F", "E", "B", " ", "2", "9", " ", "2", "0", "2", "4">>}

DateFields ==
    {Join(ps, <<" ">>) : ps \in SeqsUpTo(DateShapeParts, MaxDateParts)}
        \cup {Join(<<d, m, y>>, <<" ">>) :
                  d \in DayParts, m \in MonthParts, y \in YearParts}
        \cup DateExtras

\* payee fields: every run of up to MaxPayeeTokens tokens, and the payees
\* of the documentation
PayeeTokens ==
    {<<" ", "t", "o", " ">>, <<" ", "b", "y", " ">>,
     <<" ", "f", "r", "o", "m", " ">>, <<"t", "o", " ">>, <<"A">>, <<" ">>}

PayeeBothKeywords ==
    <<"S", "e", "n", "t", " ", "f", "r", "o", "m", " ", "A", " ", "t", "o",
      " ", "B", " ">>

PayeeExtras ==
    {BasePayee, PayeeBothKeywords,
     <<"A", "c", "c", "o", "u", "n", "t", " ", "C", "r", "e", "d", "i", "t",
       "e", "d", " ", "f", "r", "o", "m", " ", "3", "0", "0", "6", "0", "5",
       "6", "1", "3">>,
     <<"P", "a", "y", "m", "e", "n", "t", " ", "t", "o", " ", "C", "A", "N",
       "A", "D", "A", " ", "L", "I", "F", "E">>,
     <<"D", "e", "p", "o", "s", "i", "t", " ", "f", "r", "o", "m", " ", "B",
       "K", " ", "O", "F", " ", "M", "O", "N", "T", "R", "E", "A", "L">>}

PayeeFields ==
    {Flatten(ts) : ts \in SeqsUpTo(PayeeTokens, MaxPayeeTokens)}
        \cup PayeeExtras

\* amount fields: every string of up to MaxAmountLen characters, and
\* amounts with other signs, symbols and the non-finite values
AmountChars == {"-", "$", "0", "5", "."}

AmountExtras ==
    {BaseAmount,
     <<"-", "$", "2", "7", "1", ".", "8", "0">>,
     <<"$", "1", ".", "5", "9">>,
     <<"-", "$", "6", "1", "0">>,
     <<"-", "$", "0", ".", "0", "5">>,
     <<"$", "+", "5">>,
     <<"-", "$", "+", "5">>,
     <<"$", "N", "a", "N">>,
     <<"-", "$", "n", "a", "n">>,
     <<"$", "i", "n", "f">>,
     <<"-", "$", "i", "n", "f">>,
     <<"$", "-", "i", "n", "f">>,
     <<"$", "I", "n", "f", "i", "n", "i", "t", "y">>,
     <<"$", "5", "x">>,
     <<"U", "S", "D", "5">>,
     <<"-", "U", "S", "D", "5">>,
     <<" ", "$", "5">>,
     <<"$", " ", "5">>,
     <<Euro, "5">>,
     <<"-", Euro, "5">>,
     <<"$", Euro>>,
     <<Euro>>}

AmountFields == SeqsUpTo(AmountChars, MaxAmountLen) \cup AmountExtras

\* data lines of the several-line files: good and bad in each stage
LineSet ==
    {LineOf(BaseDate, BasePayee, a) :
         a \in {<<"$", "5">>, <<"-", "$", "5">>, <<"$", "0">>, <<"x">>, <<>>,
                <<"-">>}}
        \cup {LineOf(BadDate, BasePayee, a) : a \in {<<"$", "5">>, <<"x">>}}
        \cup {<<>>,
              <<"a", ",", "b", ",", "c">>,
              <<"a", ",", "b", ",", "c", ",", "d", ",", "e">>,
              InputHeader}

\* the first line, which main skips: the header or a data line
FirstLines == {InputHeader, LineOf(BaseDate, BasePayee, BaseAmount)}

\* the lines of a file: none, or a first line and up to MaxLines more
Files ==
    {<<>>} \cup {<<f>> \o ls : f \in FirstLines,
                               ls \in SeqsUpTo(LineSet, MaxLines)}

\* every line ends in "\n"
Text(ls) == Flatten([i \in 1..Len(ls) |-> ls[i] \o <<"\n">>])

\* the last line does not
TextNoEol(ls) == Join(ls, <<"\n">>)

Inputs ==
    {Text(<<InputHeader, LineOf(d, BasePayee, BaseAmount)>>) : d \in DateFields}
        \cup {Text(<<InputHeader, LineOf(BaseDate, p, BaseAmount)>>) :
                  p \in PayeeFields}
        \cup {Text(<<InputHeader, LineOf(BaseDate, BasePayee, a)>>) :
                  a \in AmountFields}
        \cup {Text(ls) : ls \in Files}
        \cup {TextNoEol(ls) : ls \in Files}
        \cup {Text(<<InputHeader, ExampleLine1, ExampleLine2>>),
              Join(<<InputHeader, ExampleLine1, ExampleLine2>>, <<"\r", "\n">>)}

-----------------------------------------------------------------------------
(* main                                                                     *)

SuccessLine == <<"S", "u", "c", "c", "e", "s", "s">>

\* what a write_all that fails may leave in the file: any part of the text
\* short of all of it; the model keeps the shortest and the longest
PartialWrites(text) == {<<>>, SubSeq(text, 1, Len(text) - 1)}

Init ==
    /\ input \in Inputs
    /\ pc = "start"
    /\ lines = <<>>
    /\ idx = 1
    /\ data = <<>>
    /\ err = NoErr
    /\ outFile = None
    /\ stdout = <<>>

\* read_file(args.filename)? succeeds; string.lines().skip(1)
read_file_ok ==
    /\ pc = "start"
    /\ lines' = Skip1(Lines(input))
    /\ pc' = "map"
    /\ UNCHANGED <<input, idx, data, err, outFile, stdout>>

\* read_file(args.filename)? fails: main returns the io::Error
read_file_err ==
    /\ pc = "start"
    /\ err' = MkErr("Io", <<>>)
    /\ pc' = "exit_err"
    /\ UNCHANGED <<input, lines, idx, data, outFile, stdout>>

\* collect() takes the next line and the closure returns Ok
map_ok ==
    /\ pc = "map"
    /\ idx <= Len(lines)
    /\ LET r == ConvertLine(lines[idx])
       IN  /\ r.tag = "Ok"
           /\ data' = Append(data, r.data)
    /\ idx' = idx + 1
    /\ UNCHANGED <<input, pc, lines, err, outFile, stdout>>

\* variant of map_err: the failing line is dropped and the run goes on
map_err_skipped ==
    /\ pc = "map"
    /\ idx <= Len(lines)
    /\ ConvertLine(lines[idx]).tag = "Err"
    /\ idx' = idx + 1
    /\ UNCHANGED <<input, pc, lines, data, err, outFile, stdout>>

\* the closure returns Err: collect() stops there and data? returns it
map_err ==
    /\ pc = "map"
    /\ idx <= Len(lines)
    /\ LET r == ConvertLine(lines[idx])
       IN  /\ r.tag = "Err"
           /\ err' = r.err
    /\ pc' = "exit_err"
    /\ UNCHANGED <<input, lines, idx, data, outFile, stdout>>

\* the closure panics: the process is torn down
map_panic ==
    /\ pc = "map"
    /\ idx <= Len(lines)
    /\ ConvertLine(lines[idx]).tag = "Panic"
    /\ pc' = "panic"
    /\ UNCHANGED <<input, lines, idx, data, err, outFile, stdout>>

\* the lines are used up; write succeeds and main prints Success
write_ok ==
    /\ pc = "map"
    /\ idx > Len(lines)
    /\ outFile' = Some(WriteOutput(data))
    /\ stdout' = Append(stdout, SuccessLine)
    /\ pc' = "exit_ok"
    /\ UNCHANGED <<input, lines, idx, data, err>>

\* File::create fails
write_create_err ==
    /\ pc = "map"
    /\ idx > Len(lines)
    /\ err' = MkErr("Write", <<>>)
    /\ pc' = "exit_err"
    /\ UNCHANGED <<input, lines, idx, data, outFile, stdout>>

\* File::create succeeds and write_all fails
write_all_err ==
    /\ pc = "map"
    /\ idx > Len(lines)
    /\ \E part \in PartialWrites(WriteOutput(data)) : outFile' = Some(part)
    /\ err' = MkErr("Write", <<>>)
    /\ pc' = "exit_err"
    /\ UNCHANGED <<input, lines, idx, data, stdout>>

Next ==
    \/ read_file_ok
    \/ read_file_err
    \/ map_ok
    \/ map_err
    \/ map_panic
    \/ write_ok
    \/ write_create_err
    \/ write_all_err

Spec == Init /\ [][Next]_vars

-----------------------------------------------------------------------------
(* What the properties below speak of                                       *)

\* the number of "," in l
CommaCount(l) == Cardinality({i \in 1..Len(l) : l[i] = ","})

HasFourFields(l) == CommaCount(l) = 3

\* the n-th field of l: the text between the commas around it
FieldOf(l, n) ==
    LET commas   == {i \in 1..Len(l) : l[i] = ","}
        comma(k) == CHOOSE i \in commas :
                        Cardinality({j \in commas : j < i}) = k - 1
        from     == IF n = 1 THEN 1 ELSE comma(n - 1) + 1
        to       == IF Cardinality(commas) < n THEN Len(l) ELSE comma(n) - 1
    IN  SubSeq(l, from, to)

\* the run stopped in the closure, at lines[idx]
StoppedAtLine ==
    \/ pc = "panic"
    \/ pc = "exit_err" /\ err.kind \notin {"Io", "Write"}

\* no file was created and nothing was printed
NothingWritten == outFile = None /\ stdout = <<>>

\* digits, or digits "." digits
IsPlainDecimal(s) ==
    \E n \in 1..Len(s) :
        /\ AllDigits(SubSeq(s, 1, n))
        /\ \/ n = Len(s)
           \/ /\ n + 1 < Len(s)
              /\ s[n + 1] = "."
              /\ AllDigits(SubSeq(s, n + 2, Len(s)))

\* $<decimal> or -$<decimal>
IsDollarAmount(f) ==
    \/ Len(f) > 1 /\ f[1] = "$" /\ IsPlainDecimal(Tail(f))
    \/ Len(f) > 2 /\ f[1] = "-" /\ f[2] = "$" /\ IsPlainDecimal(Tail(Tail(f)))


-----------------------------------------------------------------------------
(* C1  Fail fast, no partial output.  The output file is created and        *)
(* Success is printed only once every line after the first has been         *)
(* converted; when a line does not convert, the run never ends well, no     *)
(* line after it is converted, and no file is created and nothing printed.  *)

FailingLines == {k \in 1..Len(lines) : ConvertLine(lines[k]).tag # "Ok"}

\* C1: the file is created and Success printed only after every line after
\* the first has converted; once a line fails the run does not end well, no
\* later line is converted, no file is created and nothing is printed
C1_FailFastNoPartialOutput ==
    /\ pc = "start" => NothingWritten
    /\ FailingLines # {} =>
           /\ pc \in {"map", "exit_err", "panic"}
           /\ NothingWritten
           /\ \A k \in FailingLines : idx <= k /\ Len(data) < k
    /\ (outFile.some \/ stdout # <<>>) =>
           /\ pc \in {"exit_ok", "exit_err"}
           /\ FailingLines = {}
           /\ Len(data) = Len(lines)
    /\ stdout # <<>> =>
           /\ pc = "exit_ok"
           /\ stdout = <<SuccessLine>>
           /\ outFile = Some(WriteOutput(data))
    /\ pc = "exit_ok" => stdout = <<SuccessLine>>
    /\ (StoppedAtLine /\ pc = "exit_err") =>
           idx \in FailingLines /\ Len(data) = idx - 1

\* the first of two lines failed, the second would have converted
C1_Witness ==
    /\ pc = "exit_err"
    /\ Len(lines) = 2
    /\ idx = 1
    /\ ConvertLine(lines[2]).tag = "Ok"
    /\ NothingWritten

(* C2  Column by sign, as claimed: four commas (Inflow) exactly when the    *)
(* amount is zero or more, three (Outflow) exactly when it is below zero,   *)
(* and the magnitude after them.  The code tests amount > 0.0, so a zero    *)
(* amount goes to Outflow.                                                  *)

\* a >= 0.0
GeZero(a) == a.kind # "nan" /\ ~LtZero(a)

RowClaimed(d) ==
    d.date \o <<",">> \o d.payee
           \o (IF GeZero(d.amount) THEN <<",", ",", ",", ",">>
               ELSE <<",", ",", ",">>)
           \o FmtF32(Abs(d.amount)) \o <<"\n">>

\* C2, as claimed: every row has four commas exactly when its amount is
\* zero or more and three exactly when it is below zero, then the magnitude
C2_InflowIffNonNegative ==
    \A k \in 1..Len(data) :
        /\ GeZero(data[k].amount) \/ LtZero(data[k].amount)
        /\ FormatRow(data[k]) = RowClaimed(data[k])

(* C3  The end-to-end example of the documentation.                         *)

ExampleInput == Text(<<InputHeader, ExampleLine1, ExampleLine2>>)

ExampleHeaderRow ==
    <<"D", "a", "t", "e", ",", "P", "a", "y", "e", "e", ",", "C", "a", "t",
      "e", "r", "g", "o", "r", "y", ",", "M", "e", "m", "o", ",", "O", "u",
      "t", "f", "l", "o", "w", ",", "I", "n", "f", "l", "o", "w", "\n">>

ExampleOutflowRowClaimed ==
    <<"3", "1", "/", "0", "1", "/", "2", "0", "2", "4", ",", "C", "A", "N",
      "A", "D", "A", " ", "L", "I", "F", "E", ",", ",", ",", "2", "7", "1",
      ".", "8", ",", "\n">>

ExampleOutflowRow ==
    <<"3", "1", "/", "0", "1", "/", "2", "0", "2", "4", ",", "C", "A", "N",
      "A", "D", "A", " ", "L", "I", "F", "E", ",", ",", ",", "2", "7", "1",
      ".", "8", "\n">>

ExampleInflowRow ==
    <<"2", "9", "/", "0", "1", "/", "2", "0", "2", "4", ",", "B", "K", " ",
      "O", "F", " ", "M", "O", "N", "T", "R", "E", "A", "L", ",", ",", ",",
      ",", "6", "1", "0", "\n">>

\* C3, as claimed: the example input gives the header, the Outflow row
\* ending in a comma, and the Inflow row
C3_ExampleTrailingComma ==
    (input = ExampleInput /\ pc = "exit_ok") =>
        outFile.val = ExampleHeaderRow \o ExampleOutflowRowClaimed
                          \o ExampleInflowRow

\* C3, as the code writes it: the example input gives the header, the
\* Outflow row ending with the amount (five fields), and the Inflow row
C3_Example ==
    (input = ExampleInput /\ pc = "exit_ok") =>
        outFile.val = ExampleHeaderRow \o ExampleOutflowRow \o ExampleInflowRow

C3_Witness == input = ExampleInput /\ pc = "exit_ok" /\ outFile.some

(* C4  A line that does not hold exactly three commas stops the run with    *)
(* InvalidNumLineElements carrying the line, and nothing is written; a      *)
(* line of four fields never gives that error.                              *)

\* C4: a line without exactly four fields stops the run with
\* InvalidNumLineElements carrying the line and nothing is written; a line of
\* four fields never gives that error
C4_InvalidFieldCount ==
    /\ \A k \in 1..Len(data) : HasFourFields(lines[k])
    /\ (\E k \in 1..Len(lines) : ~HasFourFields(lines[k])) =>
           pc # "exit_ok" /\ NothingWritten
    /\ StoppedAtLine =>
           /\ HasFourFields(lines[idx]) <=> err.kind # "InvalidNumLineElements"
           /\ ~HasFourFields(lines[idx]) =>
                  /\ pc = "exit_err"
                  /\ err.arg = lines[idx]
                  /\ ErrFmt(err) = <<"i", "n", "v", "a", "l", "i", "d", " ",
                    "n", "u", "m", "b", "e", "r", " ", "o", "f", " ", "e",
                    "l", "e", "m", "e", "n", "t", "s", ":", " ">> \o
                    lines[idx]
                  /\ NothingWritten

\* an empty line after a converted one stopped the run
C4_Witness ==
    /\ pc = "exit_err"
    /\ idx = 2
    /\ Len(lines) = 2
    /\ lines[idx] = <<>>
    /\ err.kind = "InvalidNumLineElements"

(* C5  The sign of the amount.                                              *)

\* the field after its first character, or its first two when that is "-"
PayloadOf(f) == IF f[1] = "-" THEN Tail(Tail(f)) ELSE Tail(f)

\* C5, as claimed, on the lines whose amount field is $<decimal> or
\* -$<decimal>: the amount of a converted line is below zero exactly when
\* its amount field starts with "-"
C5_NegativeIffLeadingMinus ==
    \A k \in 1..Len(data) :
        IsDollarAmount(FieldOf(lines[k], 3)) =>
            (LtZero(data[k].amount) <=> FieldOf(lines[k], 3)[1] = "-")

\* the payload names a number other than zero
PayloadNonZero(p) ==
    \/ \E i \in 1..Len(p) : IsDigit(p[i]) /\ p[i] # "0"
    \/ \E i \in 1..Len(p) : p[i] \in {"i", "I"}

\* C5, as the code has it: the amount is below zero exactly when the payload
\* is not zero and one, not both, of the field and the payload starts with "-"
C5_Sign ==
    \A k \in 1..Len(data) :
        LET f == FieldOf(lines[k], 3)
            p == PayloadOf(f)
        IN  LtZero(data[k].amount) <=>
                /\ PayloadNonZero(p)
                /\ (f[1] = "-") # (p[1] = "-")

\* -$<decimal> above zero gave an amount below zero
C5_Witness ==
    \E k \in 1..Len(data) :
        /\ FieldOf(lines[k], 3) = <<"-", "$", "2", "7", "1", ".", "8", "0">>
        /\ LtZero(data[k].amount)


(* C6  On success the file holds the header and then one row for each       *)
(* input line after the first, in the order of the input; the first input   *)
(* line gives no row.                                                       *)

\* the row of an input line: date, payee, the commas, the magnitude
RowOfLine(l) == FormatRow(ConvertLine(l).data)

\* C6: on success the file is the header and then the row of each input
\* line after the first, one each, in input order
C6_OneRowPerLineInOrder ==
    pc = "exit_ok" =>
        LET inLines == Lines(input)
            n       == IF inLines = <<>> THEN 0 ELSE Len(inLines) - 1
            rows    == [k \in 1..n |-> RowOfLine(inLines[k + 1])]
        IN  /\ Len(data) = n
            /\ outFile.val = HeaderLine \o Flatten(rows)
            /\ Len(Lines(outFile.val)) = n + 1

\* two different lines after the first gave two different rows
C6_Witness ==
    /\ pc = "exit_ok"
    /\ Len(data) = 2
    /\ data[1].amount # data[2].amount
    /\ Len(Lines(input)) = 3

(* C7  As claimed: a line of four fields whose amount is not $<decimal>     *)
(* or -$<decimal> ends the conversion with PrefixAmount or ParseAmount,     *)
(* never with a Transaction and never with a panic.  The code skips one     *)
(* or two characters whatever they are and cuts at a byte offset.           *)

\* C7, as claimed: an amount that is not $<decimal> or -$<decimal> never
\* gives a Transaction or a panic, only PrefixAmount or ParseAmount
C7_MalformedAmountRejected ==
    /\ \A k \in 1..Len(data) : IsDollarAmount(FieldOf(lines[k], 3))
    /\ pc # "panic"
    /\ (/\ StoppedAtLine
        /\ HasFourFields(lines[idx])
        /\ ~IsDollarAmount(FieldOf(lines[idx], 3))) =>
           err.kind \in {"PrefixAmount", "ParseAmount"}

(* C8  A valid line (a date of one or two digits, a table month and four    *)
(* digits; any payee; an amount $<decimal> or -$<decimal>) always           *)
(* converts, and its date is one or two digits, "/", two digits, "/",       *)
(* four digits.                                                             *)

IsValidDate(f) ==
    \E n \in {1, 2} :
        /\ Len(f) = n + 9
        /\ AllDigits(SubSeq(f, 1, n))
        /\ f[n + 1] = " "
        /\ \E k \in 1..Len(MONTHS) : SubSeq(f, n + 2, n + 4) = MONTHS[k]
        /\ f[n + 5] = " "
        /\ AllDigits(SubSeq(f, n + 6, n + 9))

IsValidLine(l) ==
    /\ HasFourFields(l)
    /\ IsValidDate(FieldOf(l, 1))
    /\ IsDollarAmount(FieldOf(l, 3))

\* ^\d{1,2}/\d{2}/\d{4}$
HasDateShape(s) ==
    \E n \in {1, 2} :
        /\ Len(s) = n + 8
        /\ AllDigits(SubSeq(s, 1, n))
        /\ s[n + 1] = "/"
        /\ AllDigits(SubSeq(s, n + 2, n + 3))
        /\ s[n + 4] = "/"
        /\ AllDigits(SubSeq(s, n + 5, n + 8))

\* C8: a valid line always converts and its date is one or two digits, "/",
\* two digits, "/", four digits
C8_ValidLineConverts ==
    /\ \A k \in 1..Len(data) :
           IsValidLine(lines[k]) => HasDateShape(data[k].date)
    /\ StoppedAtLine => ~IsValidLine(lines[idx])

\* a valid line with a day of one digit was converted
C8_Witness ==
    \E k \in 1..Len(data) :
        /\ IsValidLine(lines[k])
        /\ Len(FieldOf(lines[k], 1)) = 10
        /\ HasDateShape(data[k].date)

(* C9  The date converts exactly when it has three parts between ASCII      *)
(* whitespace and the middle one contains a table entry; the result is      *)
(* the first part, "/", the two-digit number of the first such entry in     *)
(* table order, "/", the third part.  Otherwise the run stops with          *)
(* ConvertDate (the one error the code has for both failures) and nothing   *)
(* is written.                                                              *)

TwoDigits(n) == <<DigitChars[(n \div 10) + 1], DigitChars[(n % 10) + 1]>>

DateClaimed(f) ==
    LET parts == SplitAsciiWhitespace(f)
        hits  == IF Len(parts) = 3
                 THEN {k \in 1..Len(MONTHS) : Contains(parts[2], MONTHS[k])}
                 ELSE {}
    IN  IF hits = {} THEN None
        ELSE Some(parts[1] \o <<"/">> \o TwoDigits(MinOf(hits)) \o <<"/">>
                           \o parts[3])

KeywordsIn(f) == {k \in 1..Len(KEYWORDS) : Contains(f, KEYWORDS[k])}

FirstKeyword(f) == MinOf(KeywordsIn(f))

\* s without the whitespace before its first and after its last other
\* character
Trimmed(s) ==
    LET keep == {i \in 1..Len(s) : s[i] \notin {" ", "\t", "\r"}}
    IN  IF keep = {} THEN <<>>
        ELSE SubSeq(s, MinOf(keep), CHOOSE i \in keep : \A j \in keep : j <= i)

\* the places of f where key occurs
Occurrences(f, key) == {i \in 1..Len(f) : MatchesAt(f, key, i)}

\* as claimed: the text after the last occurrence of the keyword
PayeeAfterLastOccurrence(f) ==
    IF KeywordsIn(f) = {} THEN f
    ELSE LET key  == KEYWORDS[FirstKeyword(f)]
             occ  == Occurrences(f, key)
             last == CHOOSE i \in occ : \A j \in occ : j <= i
         IN  Trimmed(SubSeq(f, last + Len(key), Len(f)))

\* C10, as claimed: the payee is the trimmed text after the last occurrence
\* of the first keyword (in the order to, by, from) the field contains, or the
\* field unchanged when it contains none
C10_PayeeAfterLastOccurrence ==
    \A k \in 1..Len(data) :
        data[k].payee = PayeeAfterLastOccurrence(FieldOf(lines[k], 2))

\* the occurrences of key found from the left, each starting at or after
\* the end of the one before
RECURSIVE Matches(_, _, _)
Matches(f, key, from) ==
    LET occ == {i \in Occurrences(f, key) : i >= from}
    IN  IF occ = {} THEN {}
        ELSE {MinOf(occ)} \cup Matches(f, key, MinOf(occ) + Len(key))

\* as the code has it: the text after the last of those
PayeeAfterLastMatch(f) ==
    IF KeywordsIn(f) = {} THEN f
    ELSE LET key  == KEYWORDS[FirstKeyword(f)]
             occ  == Matches(f, key, 1)
             last == CHOOSE i \in occ : \A j \in occ : j <= i
         IN  Trimmed(SubSeq(f, last + Len(key), Len(f)))

\* C10, as the code has it: the payee is the trimmed text after the last
\* match of the first keyword the field contains, the matches taken from
\* the left without overlap, or the field unchanged when it contains none;
\* the payee stage never fails
C10_Payee ==
    /\ \A k \in 1..Len(data) :
           data[k].payee = PayeeAfterLastMatch(FieldOf(lines[k], 2))
    /\ err.kind \notin {"ParsePayee", "PrefixPayee"}

\* " from " came before " to " in the field, and " to " was the one cut at
C10_Witness ==
    \E k \in 1..Len(data) :
        /\ FieldOf(lines[k], 2) = PayeeBothKeywords
        /\ data[k].payee = <<"B">>

====
